---- MODULE Spec2Model ----
(***************************************************************************)
(* Model of the password service of src/main.go: the PasswordManager      *)
(* (Hash, calculateHash, Get, Stats, HasPendingHashes, Shutdown,          *)
(* IsShuttingDown), the HTTP adapter PasswordManagerHandler (hash, get,   *)
(* stats, shutdown) and the signal goroutine of main that ends the        *)
(* process.  Every goroutine is a thread with a program counter; the      *)
(* embedded sync.Mutex is the variable lock.                              *)
(***************************************************************************)
EXTENDS Integers, Sequences, FiniteSets, TLC

\* ---------------------------------------------------------------- bounds
\* number of connections that send POST /hash requests; the goroutine of a
\* connection serves its requests one after another, and a connection sends
\* no further request once one was accepted
NumHashRequests == 2
\* number of goroutines that call Get directly, again and again, as the test
\* does (unit_test.go:37); one more goroutine serves the GET /hash/<id>
\* requests of the adapter
NumGetters == 1

\* ------------------------------------------------------- program constants
\* main.go:121  nanoseconds per millisecond
NsPerMs == 1000000
\* time.Duration is a number of nanoseconds; it is kept here as whole
\* milliseconds plus a remainder 0 .. NsPerMs-1, so ms * NsPerMs + ns is the
\* Duration.  main.go:51  NapTimeSec = 5 * time.Second
NapTimeSec == [ms |-> 5000, ns |-> 0]
ZeroDuration == [ms |-> 0, ns |-> 0]

\* time spent by one request on top of the nap (time.Now().Sub(ts) minus the
\* time.Sleep argument: time.Sleep sleeps at least its argument)
Overheads == {[ms |-> 0, ns |-> 0], [ms |-> 1, ns |-> 500000]}

\* the nil slice a map lookup of a missing key yields
Nil == << >>
NoThread == <<"none", 0>>

Hashers == {<<"hash", i>> : i \in 1..NumHashRequests}
Workers == {<<"worker", i>> : i \in 1..NumHashRequests}
GetHandlerThread == <<"get", 0>>
Getters == {<<"get", i>> : i \in 0..NumGetters}
StatsThread == <<"stats", 0>>
PollThread == <<"poll", 0>>
SignalThread == <<"signal", 0>>
Threads == Hashers \cup Workers \cup Getters \cup {StatsThread, PollThread, SignalThread}

WorkerOf(h) == <<"worker", h[2]>>
HasherOf(w) == <<"hash", w[2]>>

\* ids a GET /hash/<id> request may carry: every id that can be issued and
\* one that never is
GetIds == 0 .. NumHashRequests

\* bodies of POST /hash requests as strings.Split(body, "=") returns them
HashRequests ==
    { [method |-> "POST", items |-> <<"password", "angryMonkey">>],
      [method |-> "POST", items |-> <<"password", "hunter2">>],
      [method |-> "POST", items |-> <<"password", "">>],
      [method |-> "POST", items |-> <<"">>],
      [method |-> "GET",  items |-> <<"password", "angryMonkey">>] }

GetMethods == {"GET", "POST"}

VARIABLES tasks, id, requests, totalTime, pendingHashes, shuttingDown,
          lock, pc, ret, pwd, wid, hashedPwd, gid, exited,
          entered, ord, fetched

pmvars == <<tasks, id, requests, totalTime, pendingHashes, shuttingDown>>
vars == <<tasks, id, requests, totalTime, pendingHashes, shuttingDown,
          lock, pc, ret, pwd, wid, hashedPwd, gid, exited,
          entered, ord, fetched>>

\* ------------------------------------------------------------ pure helpers
\* sha512 of a string: a deterministic, collision-free function of its input
Digest(v) == <<"sha512", v>>

\* Duration addition (pm.totalTime += elapsed)
DurAdd(a, b) ==
    [ms |-> a.ms + b.ms + ((a.ns + b.ns) \div NsPerMs),
     ns |-> (a.ns + b.ns) % NsPerMs]

\* d.Nanoseconds() / 1000000, truncating
DurMillis(d) == d.ms

StatsAvg_RoundMillis(total, reqs) ==
    IF reqs > 0
    THEN (DurMillis(total) + (IF 2 * total.ns >= NsPerMs THEN 1 ELSE 0)) \div reqs
    ELSE 0

StatsAvg_DivByNext(total, reqs) ==
    IF reqs > 0 THEN DurMillis(total) \div (reqs + 1) ELSE 0

\* avgTime of Stats(): (pm.totalTime.Nanoseconds() / 1000000) / requests
StatsAvg(total, reqs) ==
    IF reqs > 0 THEN DurMillis(total) \div reqs ELSE 0

\* a Go map lookup: the stored value, or nil for a missing key
Lookup(m, k) == IF k \in DOMAIN m THEN m[k] ELSE Nil

Delete_All(m, k) == << >>

\* delete(m, k)
Delete(m, k) == [x \in DOMAIN m \ {k} |-> m[x]]

\* m[k] = v
Store(m, k, v) == [x \in DOMAIN m \cup {k} |-> IF x = k THEN v ELSE m[x]]

\* ------------------------------------------------------------------- Init
\* NewPasswordManager(): an empty map and zero values; no goroutine started
Init ==
    /\ tasks = << >>
    /\ id = 0
    /\ requests = 0
    /\ totalTime = ZeroDuration
    /\ pendingHashes = 0
    /\ shuttingDown = FALSE
    /\ lock = NoThread
    /\ pc = [t \in Threads |->
               IF t \in Workers THEN "w_none"
               ELSE IF t = PollThread THEN "p_idle"
               ELSE IF t = SignalThread THEN "d_wait"
               ELSE IF t \in Getters \ {GetHandlerThread} THEN "g_get"
               ELSE "idle"]
    /\ ret = [t \in Threads |-> Nil]
    /\ pwd = [t \in Hashers \cup Workers |-> ""]
    /\ wid = [t \in Hashers \cup Workers |-> -1]
    /\ hashedPwd = [t \in Workers |-> Nil]
    /\ gid = [t \in Getters |-> -1]
    /\ exited = FALSE
    /\ entered = 0
    /\ ord = [t \in Hashers |-> -1]
    /\ fetched = [k \in GetIds |-> 0]

\* ----------------------------------------------------------- the mutex
Acquire_NoWait(t) == lock' = t

\* pm.Lock() and pm.Unlock() of the embedded sync.Mutex
Acquire(t) == lock = NoThread /\ lock' = t
Release(t) == lock = t /\ lock' = NoThread
Goto(t, l) == pc' = [pc EXCEPT ![t] = l]
\* no goroutine takes a step once os.Exit has ended the process
Running == ~exited

\* history kept for the properties only: entered counts the Hash calls that
\* took the lock, ord[h] is the rank of h's call among them, fetched[k] counts
\* the Get(k) calls that returned a hash
ghosts == <<entered, ord, fetched>>

\* the worker that was handed id k has finished its bookkeeping
Completed(k) == \E w \in Workers : wid[w] = k /\ pc[w] \in {"w_unlock", "w_done"}
\* id k was handed to a worker that has not finished its bookkeeping
Pending(k) == \E h \in Hashers : wid[h] = k /\ pc[WorkerOf(h)] \notin {"w_unlock", "w_done"}
\* id k was handed out by a Hash call
Issued(k) == \E h \in Hashers : wid[h] = k
\* the password that was passed to the Hash call that handed out id k
SubmittedValue(k) == pwd[CHOOSE h \in Hashers : wid[h] = k]

\* -------------------------------------------- IsShuttingDown via adapter
AdapterThreads == Hashers \cup {GetHandlerThread, StatsThread}

\* isShutdownPending calls IsShuttingDown: pm.Lock(); return pm.shuttingDown
\* (the value is taken before the deferred Unlock runs)
IsShuttingDown(t) ==
    /\ Running /\ pc[t] = "idle"
    /\ Acquire(t)
    /\ ret' = [ret EXCEPT ![t] = shuttingDown]
    /\ Goto(t, "isd_unlock")
    /\ UNCHANGED <<pmvars, pwd, wid, hashedPwd, gid, exited, ghosts>>

\* ------------------------------------------------------- POST /hash handler
\* deferred pm.Unlock() of IsShuttingDown, then the rest of hash() up to the
\* call of Hash: it answers 403 when shutting down, 405 or 400 for a
\* malformed request, and the connection is then ready for its next request
hash_Check(h) ==
    /\ Running /\ pc[h] = "isd_unlock"
    /\ Release(h)
    /\ ret' = [ret EXCEPT ![h] = Nil]
    /\ IF ret[h] = TRUE
       THEN Goto(h, "idle") /\ pwd' = pwd
       ELSE \E req \in HashRequests :
              IF req.method # "POST"
              THEN Goto(h, "idle") /\ pwd' = pwd
              ELSE IF req.items = <<"">>
              THEN Goto(h, "idle") /\ pwd' = pwd
              ELSE IF Len(req.items) # 2 \/ req.items[1] # "password" \/ req.items[2] = ""
              THEN Goto(h, "idle") /\ pwd' = pwd
              ELSE Goto(h, "h_hash") /\ pwd' = [pwd EXCEPT ![h] = req.items[2]]
    /\ UNCHANGED <<pmvars, wid, hashedPwd, gid, exited, ghosts>>

Hash_NoIncrement(h) ==
    /\ Running /\ pc[h] = "h_hash"
    /\ Acquire(h)
    /\ pendingHashes' = pendingHashes + 1
    /\ wid' = [wid EXCEPT ![h] = id]
    /\ id' = id
    /\ Goto(h, "h_unlock")
    /\ entered' = entered + 1
    /\ ord' = [ord EXCEPT ![h] = entered]
    /\ UNCHANGED <<tasks, requests, totalTime, shuttingDown, ret, pwd, hashedPwd, gid,
                   exited, fetched>>

Hash_CountInWorker(h) ==
    /\ Running /\ pc[h] = "h_hash"
    /\ Acquire(h)
    /\ pendingHashes' = pendingHashes
    /\ wid' = [wid EXCEPT ![h] = id]
    /\ id' = id + 1
    /\ Goto(h, "h_unlock")
    /\ entered' = entered + 1
    /\ ord' = [ord EXCEPT ![h] = entered]
    /\ UNCHANGED <<tasks, requests, totalTime, shuttingDown, ret, pwd, hashedPwd, gid,
                   exited, fetched>>

\* Hash: ts := time.Now(); pm.Lock(); pm.pendingHashes++; id := pm.id; pm.id++
Hash(h) ==
    /\ Running /\ pc[h] = "h_hash"
    /\ Acquire(h)
    /\ pendingHashes' = pendingHashes + 1
    /\ wid' = [wid EXCEPT ![h] = id]
    /\ id' = id + 1
    /\ Goto(h, "h_unlock")
    /\ entered' = entered + 1
    /\ ord' = [ord EXCEPT ![h] = entered]
    /\ UNCHANGED <<tasks, requests, totalTime, shuttingDown, ret, pwd, hashedPwd, gid,
                   exited, fetched>>

\* pm.Unlock(); go pm.calculateHash(id, pwd, ts); return id; the handler
\* answers 202 with the id
HashUnlock(h) ==
    /\ Running /\ pc[h] = "h_unlock"
    /\ Release(h)
    /\ ret' = [ret EXCEPT ![h] = wid[h]]
    /\ pc' = [pc EXCEPT ![h] = "r202", ![WorkerOf(h)] = "w_sleep"]
    /\ wid' = [wid EXCEPT ![WorkerOf(h)] = wid[h]]
    /\ pwd' = [pwd EXCEPT ![WorkerOf(h)] = pwd[h]]
    /\ UNCHANGED <<pmvars, hashedPwd, gid, exited, ghosts>>

\* ------------------------------------------------------------ calculateHash
calculateHash_SharedDigest(w) ==
    /\ Running /\ pc[w] = "w_sleep"
    /\ hashedPwd' = [hashedPwd EXCEPT ![w] = Digest(pwd[w])]
    /\ Acquire(w)
    /\ tasks' = [k \in DOMAIN tasks \cup {wid[w]} |-> Digest(pwd[w])]
    /\ Goto(w, "w_time")
    /\ UNCHANGED <<id, requests, totalTime, pendingHashes, shuttingDown, ret, pwd, wid,
                   gid, exited, ghosts>>

calculateHash_StoreBeforeLock(w) ==
    \/ /\ Running /\ pc[w] = "w_sleep"
       /\ hashedPwd' = [hashedPwd EXCEPT ![w] = Digest(pwd[w])]
       /\ tasks' = Store(tasks, wid[w], Digest(pwd[w]))
       /\ lock' = lock
       /\ Goto(w, "w_store")
       /\ UNCHANGED <<id, requests, totalTime, pendingHashes, shuttingDown, ret, pwd, wid,
                      gid, exited, ghosts>>
    \/ /\ Running /\ pc[w] = "w_store"
       /\ Acquire(w)
       /\ Goto(w, "w_time")
       /\ UNCHANGED <<pmvars, ret, pwd, wid, hashedPwd, gid, exited, ghosts>>

\* time.Sleep(NapTimeSec); hashedPwd := sha512 of pwd; pm.Lock();
\* pm.tasks[id] = hashedPwd
calculateHash(w) ==
    /\ Running /\ pc[w] = "w_sleep"
    /\ hashedPwd' = [hashedPwd EXCEPT ![w] = Digest(pwd[w])]
    /\ Acquire(w)
    /\ tasks' = Store(tasks, wid[w], Digest(pwd[w]))
    /\ Goto(w, "w_time")
    /\ UNCHANGED <<id, requests, totalTime, pendingHashes, shuttingDown, ret, pwd, wid,
                   gid, exited, ghosts>>

\* elapsed := time.Now().Sub(ts); pm.totalTime += elapsed
calculateHashAddTime(w) ==
    /\ Running /\ pc[w] = "w_time" /\ lock = w
    /\ \E o \in Overheads : totalTime' = DurAdd(totalTime, DurAdd(NapTimeSec, o))
    /\ Goto(w, "w_dec")
    /\ UNCHANGED <<tasks, id, requests, pendingHashes, shuttingDown, lock, ret, pwd, wid,
                   hashedPwd, gid, exited, ghosts>>

calculateHashDecPending_Skip(w) ==
    /\ Running /\ pc[w] = "w_dec" /\ lock = w
    /\ pendingHashes' = pendingHashes
    /\ Goto(w, "w_req")
    /\ UNCHANGED <<tasks, id, requests, totalTime, shuttingDown, lock, ret, pwd, wid,
                   hashedPwd, gid, exited, ghosts>>

\* pm.pendingHashes--
calculateHashDecPending(w) ==
    /\ Running /\ pc[w] = "w_dec" /\ lock = w
    /\ pendingHashes' = pendingHashes - 1
    /\ Goto(w, "w_req")
    /\ UNCHANGED <<tasks, id, requests, totalTime, shuttingDown, lock, ret, pwd, wid,
                   hashedPwd, gid, exited, ghosts>>

\* pm.requests++
calculateHashIncRequests(w) ==
    /\ Running /\ pc[w] = "w_req" /\ lock = w
    /\ requests' = requests + 1
    /\ Goto(w, "w_unlock")
    /\ UNCHANGED <<tasks, id, totalTime, pendingHashes, shuttingDown, lock, ret, pwd, wid,
                   hashedPwd, gid, exited, ghosts>>

\* pm.Unlock(); the goroutine ends
calculateHashUnlock(w) ==
    /\ Running /\ pc[w] = "w_unlock"
    /\ Release(w)
    /\ Goto(w, "w_done")
    /\ UNCHANGED <<pmvars, ret, pwd, wid, hashedPwd, gid, exited, ghosts>>

\* ---------------------------------------------------- GET /hash/<id> handler
\* deferred pm.Unlock() of IsShuttingDown, then the rest of get() up to the
\* call of Get: 403 when shutting down, 405 for another method, 400 for an
\* id that does not parse; the goroutine then serves the next request
get_Check ==
    /\ Running /\ pc[GetHandlerThread] = "isd_unlock"
    /\ Release(GetHandlerThread)
    /\ ret' = [ret EXCEPT ![GetHandlerThread] = Nil]
    /\ IF ret[GetHandlerThread] = TRUE
       THEN Goto(GetHandlerThread, "idle")
       ELSE \E method \in GetMethods, parses \in BOOLEAN :
              IF method # "GET" \/ ~parses
              THEN Goto(GetHandlerThread, "idle")
              ELSE Goto(GetHandlerThread, "g_get")
    /\ UNCHANGED <<pmvars, pwd, wid, hashedPwd, gid, exited, ghosts>>

Get_KeepEntry(g) ==
    /\ Running /\ pc[g] = "g_get"
    /\ Acquire(g)
    /\ \E k \in GetIds :
         /\ gid' = [gid EXCEPT ![g] = k]
         /\ ret' = [ret EXCEPT ![g] = Lookup(tasks, k)]
         /\ tasks' = tasks
         /\ fetched' = [fetched EXCEPT ![k] = @ + (IF k \in DOMAIN tasks THEN 1 ELSE 0)]
    /\ Goto(g, "g_unlock")
    /\ UNCHANGED <<id, requests, totalTime, pendingHashes, shuttingDown, pwd, wid,
                   hashedPwd, exited, entered, ord>>

Get_CancelPending(g) ==
    /\ Running /\ pc[g] = "g_get"
    /\ Acquire(g)
    /\ \E k \in GetIds :
         /\ gid' = [gid EXCEPT ![g] = k]
         /\ ret' = [ret EXCEPT ![g] = Lookup(tasks, k)]
         /\ tasks' = Delete(tasks, k)
         /\ pendingHashes' = IF k \notin DOMAIN tasks /\ Pending(k)
                             THEN pendingHashes - 1 ELSE pendingHashes
         /\ fetched' = [fetched EXCEPT ![k] = @ + (IF k \in DOMAIN tasks THEN 1 ELSE 0)]
    /\ Goto(g, "g_unlock")
    /\ UNCHANGED <<id, requests, totalTime, shuttingDown, pwd, wid,
                   hashedPwd, exited, entered, ord>>

\* Get(id): pm.Lock(); pwdHash := pm.tasks[id]; delete(pm.tasks, id); the id
\* is the caller's argument
Get(g) ==
    /\ Running /\ pc[g] = "g_get"
    /\ Acquire(g)
    /\ \E k \in GetIds :
         /\ gid' = [gid EXCEPT ![g] = k]
         /\ ret' = [ret EXCEPT ![g] = Lookup(tasks, k)]
         /\ tasks' = Delete(tasks, k)
         /\ fetched' = [fetched EXCEPT ![k] = @ + (IF k \in DOMAIN tasks THEN 1 ELSE 0)]
    /\ Goto(g, "g_unlock")
    /\ UNCHANGED <<id, requests, totalTime, pendingHashes, shuttingDown, pwd, wid,
                   hashedPwd, exited, entered, ord>>

\* deferred pm.Unlock(); return pwdHash; get() answers 404 for nil, else the
\* base64 text of the hash, and serves the next request; the test calls again
GetUnlock(g) ==
    /\ Running /\ pc[g] = "g_unlock"
    /\ Release(g)
    /\ ret' = [ret EXCEPT ![g] = Nil]
    /\ gid' = [gid EXCEPT ![g] = -1]
    /\ Goto(g, IF g = GetHandlerThread THEN "idle" ELSE "g_get")
    /\ UNCHANGED <<pmvars, pwd, wid, hashedPwd, exited, ghosts>>

\* ------------------------------------------------------- GET /stats handler
\* deferred pm.Unlock() of IsShuttingDown, then the rest of stats() up to the
\* call of Stats
stats_Check ==
    /\ Running /\ pc[StatsThread] = "isd_unlock"
    /\ Release(StatsThread)
    /\ ret' = [ret EXCEPT ![StatsThread] = Nil]
    /\ IF ret[StatsThread] = TRUE
       THEN Goto(StatsThread, "idle")
       ELSE \E method \in GetMethods :
              IF method # "GET"
              THEN Goto(StatsThread, "idle")
              ELSE Goto(StatsThread, "s_stats")
    /\ UNCHANGED <<pmvars, pwd, wid, hashedPwd, gid, exited, ghosts>>

Stats_CountSubmitted ==
    /\ Running /\ pc[StatsThread] = "s_stats"
    /\ Acquire(StatsThread)
    /\ ret' = [ret EXCEPT ![StatsThread] =
                  [requests |-> id, avgTime |-> StatsAvg(totalTime, requests)]]
    /\ Goto(StatsThread, "s_unlock")
    /\ UNCHANGED <<pmvars, pwd, wid, hashedPwd, gid, exited, ghosts>>

Stats_WaitsForPending ==
    /\ Running /\ pc[StatsThread] = "s_stats"
    /\ pendingHashes = 0
    /\ Acquire(StatsThread)
    /\ ret' = [ret EXCEPT ![StatsThread] =
                  [requests |-> requests, avgTime |-> StatsAvg(totalTime, requests)]]
    /\ Goto(StatsThread, "s_unlock")
    /\ UNCHANGED <<pmvars, pwd, wid, hashedPwd, gid, exited, ghosts>>

Stats_ResetAfterRead ==
    /\ Running /\ pc[StatsThread] = "s_stats"
    /\ Acquire(StatsThread)
    /\ ret' = [ret EXCEPT ![StatsThread] =
                  [requests |-> requests, avgTime |-> StatsAvg(totalTime, requests)]]
    /\ requests' = 0
    /\ totalTime' = ZeroDuration
    /\ Goto(StatsThread, "s_unlock")
    /\ UNCHANGED <<tasks, id, pendingHashes, shuttingDown, pwd, wid, hashedPwd, gid,
                   exited, ghosts>>

\* Stats(): pm.Lock(); requests = pm.requests; if requests > 0 { avgTime = ... }
Stats ==
    /\ Running /\ pc[StatsThread] = "s_stats"
    /\ Acquire(StatsThread)
    /\ ret' = [ret EXCEPT ![StatsThread] =
                  [requests |-> requests, avgTime |-> StatsAvg(totalTime, requests)]]
    /\ Goto(StatsThread, "s_unlock")
    /\ UNCHANGED <<pmvars, pwd, wid, hashedPwd, gid, exited, ghosts>>

\* deferred pm.Unlock(); return; stats() writes the JSON body
StatsUnlock ==
    /\ Running /\ pc[StatsThread] = "s_unlock"
    /\ Release(StatsThread)
    /\ ret' = [ret EXCEPT ![StatsThread] = Nil]
    /\ Goto(StatsThread, "idle")
    /\ UNCHANGED <<pmvars, pwd, wid, hashedPwd, gid, exited, ghosts>>

\* ------------------------------------------------------- HasPendingHashes
\* callers: the test (unit_test.go:30,55) as PollThread, and the drain loop
\* of shutdown() as SignalThread
PendingCallers == {PollThread, SignalThread}

\* pm.Lock(); return pm.pendingHashes > 0
HasPendingHashes(t) ==
    /\ Running /\ pc[t] = "p_idle"
    /\ Acquire(t)
    /\ ret' = [ret EXCEPT ![t] = (pendingHashes > 0)]
    /\ Goto(t, "p_unlock")
    /\ UNCHANGED <<pmvars, pwd, wid, hashedPwd, gid, exited, ghosts>>

\* deferred pm.Unlock() in the test's call; the test may call again
poll_Unlock ==
    /\ Running /\ pc[PollThread] = "p_unlock"
    /\ Release(PollThread)
    /\ ret' = [ret EXCEPT ![PollThread] = Nil]
    /\ Goto(PollThread, "p_idle")
    /\ UNCHANGED <<pmvars, pwd, wid, hashedPwd, gid, exited, ghosts>>

\* ----------------------------------------- Shutdown called by a client
client_Shutdown_Toggle ==
    /\ Running /\ pc[PollThread] = "p_idle"
    /\ Acquire(PollThread)
    /\ shuttingDown' = ~shuttingDown
    /\ Goto(PollThread, "c_unlock")
    /\ UNCHANGED <<tasks, id, requests, totalTime, pendingHashes, ret, pwd, wid,
                   hashedPwd, gid, exited, ghosts>>

\* a client of PasswordManagerInterface calls Shutdown() itself, any number
\* of times: pm.Lock(); pm.shuttingDown = true
client_Shutdown ==
    /\ Running /\ pc[PollThread] = "p_idle"
    /\ Acquire(PollThread)
    /\ shuttingDown' = TRUE
    /\ Goto(PollThread, "c_unlock")
    /\ UNCHANGED <<tasks, id, requests, totalTime, pendingHashes, ret, pwd, wid,
                   hashedPwd, gid, exited, ghosts>>

\* deferred pm.Unlock() of the client's Shutdown()
client_ShutdownUnlock ==
    /\ Running /\ pc[PollThread] = "c_unlock"
    /\ Release(PollThread)
    /\ Goto(PollThread, "p_idle")
    /\ UNCHANGED <<pmvars, ret, pwd, wid, hashedPwd, gid, exited, ghosts>>

\* ------------------------------------------- signal goroutine and shutdown()
Shutdown_ResetPending ==
    /\ Running /\ pc[SignalThread] = "d_wait"
    /\ Acquire(SignalThread)
    /\ shuttingDown' = TRUE
    /\ pendingHashes' = 0
    /\ Goto(SignalThread, "d_unlock")
    /\ UNCHANGED <<tasks, id, requests, totalTime, ret, pwd, wid,
                   hashedPwd, gid, exited, ghosts>>

\* <-c, then shutdown() calls Shutdown(): pm.Lock(); pm.shuttingDown = true
Shutdown ==
    /\ Running /\ pc[SignalThread] = "d_wait"
    /\ Acquire(SignalThread)
    /\ shuttingDown' = TRUE
    /\ Goto(SignalThread, "d_unlock")
    /\ UNCHANGED <<tasks, id, requests, totalTime, pendingHashes, ret, pwd, wid,
                   hashedPwd, gid, exited, ghosts>>

\* deferred pm.Unlock(); shutdown() enters its drain loop
ShutdownUnlock ==
    /\ Running /\ pc[SignalThread] = "d_unlock"
    /\ Release(SignalThread)
    /\ Goto(SignalThread, "p_idle")
    /\ UNCHANGED <<pmvars, ret, pwd, wid, hashedPwd, gid, exited, ghosts>>

\* deferred pm.Unlock() of the drain loop's HasPendingHashes(): sleep one
\* second and poll again while it returned true, else leave the loop
shutdown_Unlock ==
    /\ Running /\ pc[SignalThread] = "p_unlock"
    /\ Release(SignalThread)
    /\ ret' = [ret EXCEPT ![SignalThread] = Nil]
    /\ IF ret[SignalThread] = TRUE
       THEN Goto(SignalThread, "p_idle")
       ELSE Goto(SignalThread, "d_exit")
    /\ UNCHANGED <<pmvars, pwd, wid, hashedPwd, gid, exited, ghosts>>

\* os.Exit(0): the process and every goroutine of it end
Exit ==
    /\ Running /\ pc[SignalThread] = "d_exit"
    /\ exited' = TRUE
    /\ Goto(SignalThread, "d_exited")
    /\ UNCHANGED <<pmvars, lock, ret, pwd, wid, hashedPwd, gid, ghosts>>

\* ------------------------------------------------------------------- Next
Next ==
    \/ \E t \in AdapterThreads : IsShuttingDown(t)
    \/ \E h \in Hashers : hash_Check(h)
    \/ \E h \in Hashers : Hash(h)
    \/ \E h \in Hashers : HashUnlock(h)
    \/ \E w \in Workers : calculateHash(w)
    \/ \E w \in Workers : calculateHashAddTime(w)
    \/ \E w \in Workers : calculateHashDecPending(w)
    \/ \E w \in Workers : calculateHashIncRequests(w)
    \/ \E w \in Workers : calculateHashUnlock(w)
    \/ get_Check
    \/ \E g \in Getters : Get(g)
    \/ \E g \in Getters : GetUnlock(g)
    \/ stats_Check
    \/ Stats
    \/ StatsUnlock
    \/ \E t \in PendingCallers : HasPendingHashes(t)
    \/ poll_Unlock
    \/ client_Shutdown
    \/ client_ShutdownUnlock
    \/ Shutdown
    \/ ShutdownUnlock
    \/ shutdown_Unlock
    \/ Exit

Spec == Init /\ [][Next]_vars

\* fair scheduling: the Go scheduler runs every runnable goroutine, and a
\* sync.Mutex in starvation mode hands the lock to the longest waiter, so a
\* goroutine that keeps finding the lock free at times does get it; the
\* clients (requests, test calls, the signal) are under no obligation
Fairness ==
    /\ \A w \in Workers : SF_vars(calculateHash(w)) /\ WF_vars(calculateHashUnlock(w))
    /\ \A w \in Workers : WF_vars(calculateHashAddTime(w))
    /\ \A w \in Workers : WF_vars(calculateHashDecPending(w))
    /\ \A w \in Workers : WF_vars(calculateHashIncRequests(w))
    /\ \A h \in Hashers : WF_vars(hash_Check(h)) /\ SF_vars(Hash(h)) /\ WF_vars(HashUnlock(h))
    /\ \A g \in Getters : WF_vars(GetUnlock(g))
    /\ WF_vars(get_Check) /\ WF_vars(stats_Check) /\ WF_vars(StatsUnlock)
    /\ WF_vars(poll_Unlock) /\ WF_vars(client_ShutdownUnlock)
    /\ WF_vars(ShutdownUnlock)
    /\ SF_vars(HasPendingHashes(SignalThread))
    /\ WF_vars(shutdown_Unlock)
    /\ WF_vars(Exit)

FairSpec == Spec /\ Fairness

\* ===================================================================== claims
Returned(h) == pc[h] = "r202"
ReturnedHashers == {h \in Hashers : Returned(h)}
InHash == \E h \in Hashers : pc[h] = "h_unlock"
NapMillis == DurMillis(NapTimeSec)
CompletedWorkers == {w \in Workers : pc[w] \in {"w_unlock", "w_done"}}

\* C1: the k-th Hash call to take the lock is handed id k-1 and returns it;
\* the ids returned by different calls differ, and once no Hash call is in
\* its critical section the ids returned so far are exactly 0 .. N-1 for the
\* N calls that returned, whatever workers, Get calls and Shutdown did
C1_HandlesSequential ==
    /\ \A h \in Hashers : ord[h] # -1 => wid[h] = ord[h]
    /\ \A h \in Hashers : Returned(h) => ret[h] = ord[h]
    /\ \A h1, h2 \in ReturnedHashers : h1 # h2 => ret[h1] # ret[h2]
    /\ ~InHash => {ret[h] : h \in ReturnedHashers} = 0 .. (Cardinality(ReturnedHashers) - 1)

\* C1 witness: a Hash call is handed id 1 after Get removed the entry of id 0
C1_Witness ==
    \E h \in Hashers : pc[h] = "h_unlock" /\ wid[h] = 1 /\ fetched[0] = 1

\* C2: for every id at most one Get over the whole run returned a hash, and
\* once one did the entry is gone for good, so every later Get of it is nil
C2_FetchedAtMostOnce ==
    /\ \A k \in GetIds : fetched[k] <= 1
    /\ \A k \in GetIds : fetched[k] = 1 => k \notin DOMAIN tasks
    /\ \A g \in Getters : pc[g] = "g_unlock" /\ ret[g] # Nil => fetched[gid[g]] = 1

\* C2 witness: a Get of an id that was already fetched has just returned nil
C2_Witness ==
    \E g \in Getters : pc[g] = "g_unlock" /\ ret[g] = Nil /\ fetched[gid[g]] = 1

\* C3: every stored entry is the digest of the password submitted under its
\* id; a Get returns nil or that digest; and a Get of an id whose worker has
\* completed returns the digest unless an earlier Get already took it
C3_GetReturnsOwnDigest ==
    /\ \A k \in DOMAIN tasks : Issued(k) /\ tasks[k] = Digest(SubmittedValue(k))
    /\ \A g \in Getters : pc[g] = "g_unlock" /\ ret[g] # Nil =>
           Issued(gid[g]) /\ ret[g] = Digest(SubmittedValue(gid[g]))
    /\ \A g \in Getters : pc[g] = "g_unlock" /\ Completed(gid[g]) => fetched[gid[g]] = 1

\* C3 witness: a Get has returned the digest of its id's password while the
\* worker of another id, submitted with another password, has completed too
C3_Witness ==
    \E g \in Getters, h \in Hashers :
        /\ pc[g] = "g_unlock" /\ ret[g] # Nil
        /\ wid[h] # -1 /\ wid[h] # gid[g]
        /\ pwd[h] # SubmittedValue(gid[g])
        /\ Completed(wid[h])

\* the step in which thread g runs the body of Get for id k
GetStep(g, k) == pc[g] = "g_get" /\ pc'[g] = "g_unlock" /\ gid'[g] = k

\* C4: a Get of an id that was never issued, is still pending or was already
\* fetched returns nil and changes none of the manager's fields; and the
\* result of a completed worker stays available until a Get takes it,
\* whatever Get calls were made while it was pending
C4_NotFoundLeavesState ==
    /\ [](\A k \in GetIds : Completed(k) /\ fetched[k] = 0 => k \in DOMAIN tasks)
    /\ [][\A g \in Getters, k \in GetIds :
            GetStep(g, k) /\ (~Issued(k) \/ Pending(k) \/ fetched[k] >= 1)
            => ret'[g] = Nil /\ UNCHANGED pmvars]_vars

\* C4 witness: a Get of an id whose worker has not completed has returned nil
C4_Witness ==
    \E g \in Getters : pc[g] = "g_unlock" /\ ret[g] = Nil /\ Pending(gid[g])

\* C5: HasPendingHashes returns true whenever some id handed out by Hash
\* belongs to a worker that has not completed
C5_PendingWhileInFlight ==
    \A t \in PendingCallers :
        pc[t] = "p_unlock" /\ (\E k \in GetIds : Issued(k) /\ ~Completed(k))
        => ret[t] = TRUE

\* C5 witness: the test's HasPendingHashes returned true right after a Hash
\* call returned, with its worker still asleep
C5_Witness ==
    /\ pc[PollThread] = "p_unlock" /\ ret[PollThread] = TRUE
    /\ \E h \in Hashers : Returned(h) /\ pc[WorkerOf(h)] = "w_sleep"

\* C6 (as claimed): once shuttingDown is set no Hash call runs and neither
\* the next id nor the pending count increases
C6_NoAllocationWhileDraining ==
    [][shuttingDown =>
          /\ id' <= id
          /\ pendingHashes' <= pendingHashes
          /\ \A h \in Hashers : ~(pc[h] = "h_hash" /\ pc'[h] = "h_unlock")]_vars

\* C7 (as claimed): when the process has exited after the drain loop saw no
\* pending hash, every id a Hash call returned has its result stored and
\* counted
C7_NothingInFlightAtExit ==
    exited => \A h \in Hashers : Returned(h) => pc[WorkerOf(h)] = "w_done"

\* shutdown() of the adapter has called Shutdown()
DrainStarted == pc[SignalThread] # "d_wait"

\* C8 (as claimed): every id returned by Hash eventually has its result
\* stored, and after the Shutdown of shutdown() its drain loop eventually ends
C8_EveryHandleCompletes ==
    /\ \A h \in Hashers : Returned(h) ~> (pc[WorkerOf(h)] = "w_done")
    /\ DrainStarted ~> exited

\* the drain loop of shutdown() does end under fair scheduling
DrainLoopEnds == DrainStarted ~> exited

\* C9: requests is the number of workers that have done their bookkeeping,
\* and that is the total Stats returns, fetched or not
C9_TotalCountsCompletions ==
    /\ requests = Cardinality(CompletedWorkers)
    /\ pc[StatsThread] = "s_unlock" =>
           ret[StatsThread].requests = Cardinality(CompletedWorkers)

\* C9 witness: Stats returned 2 after two completions, one result fetched
\* and the other still stored
C9_Witness ==
    /\ pc[StatsThread] = "s_unlock" /\ ret[StatsThread].requests = 2
    /\ \E k \in GetIds : fetched[k] = 1
    /\ DOMAIN tasks # {}

\* C10: with every elapsed time at least the nap, the average Stats returns
\* once a worker has completed is at least the nap in milliseconds
C10_AverageAtLeastNap ==
    pc[StatsThread] = "s_unlock" /\ ret[StatsThread].requests > 0
    => ret[StatsThread].avgTime >= NapMillis

\* C10 witness: two completions, total 10001.5 ms, average truncated to 5000
C10_Witness ==
    /\ pc[StatsThread] = "s_unlock" /\ ret[StatsThread].requests = 2
    /\ totalTime = [ms |-> 10001, ns |-> 500000]
    /\ ret[StatsThread].avgTime = 5000

\* floor(d / (NsPerMs * n)) of the Duration d = d.ms * NsPerMs + d.ns, by
\* long division: d.ms = q * n + r gives q + floor((r * NsPerMs + d.ns) / (NsPerMs * n))
ExactAvg(d, n) ==
    (d.ms \div n) + (((d.ms % n) * NsPerMs + d.ns) \div (NsPerMs * n))

\* C11: when requests > 0 the average Stats returns is the total duration
\* divided by the count, truncated to whole milliseconds
C11_AverageIsTruncatedQuotient ==
    pc[StatsThread] = "s_unlock" /\ ret[StatsThread].requests > 0
    => ret[StatsThread].avgTime = ExactAvg(totalTime, ret[StatsThread].requests)

\* C11 witness: one completion of 5001.5 ms, average 5001 (not 5002)
C11_Witness ==
    /\ pc[StatsThread] = "s_unlock" /\ ret[StatsThread].requests = 1
    /\ totalTime = [ms |-> 5001, ns |-> 500000]
    /\ ret[StatsThread].avgTime = 5001

\* C12: as long as no worker has completed, Stats returns (0, 0), pending
\* submissions or not; and Stats is never held up by work in flight: it can
\* run whenever the lock is free
C12_ZeroStatsBeforeCompletion ==
    /\ pc[StatsThread] = "s_unlock" /\ CompletedWorkers = {}
           => ret[StatsThread] = [requests |-> 0, avgTime |-> 0]
    /\ Running /\ lock = NoThread /\ pc[StatsThread] = "s_stats" => ENABLED Stats

\* C12 witness: Stats returned (0, 0) while a submitted task was pending
C12_Witness ==
    /\ pc[StatsThread] = "s_unlock"
    /\ ret[StatsThread] = [requests |-> 0, avgTime |-> 0]
    /\ pendingHashes > 0

\* a step in which some caller runs the body of Shutdown()
ShutdownStep ==
    \/ pc[PollThread] = "p_idle" /\ pc'[PollThread] = "c_unlock"
    \/ pc[SignalThread] = "d_wait" /\ pc'[SignalThread] = "d_unlock"

\* C13: shuttingDown never goes back to false; a Shutdown() call made when
\* it is already set changes no field of the manager; and once the flag is
\* set every IsShuttingDown() returns true (it returns true only if set)
C13_ShutdownIdempotentTerminal ==
    [][/\ shuttingDown => shuttingDown'
       /\ shuttingDown /\ ShutdownStep => UNCHANGED pmvars
       /\ ShutdownStep => shuttingDown'
       /\ \A t \in AdapterThreads :
            pc[t] = "idle" /\ pc'[t] = "isd_unlock" => ret'[t] = shuttingDown]_vars

\* C13 witness: the client's Shutdown() has just run after shutdown() of the
\* adapter had called Shutdown() too
C13_Witness ==
    pc[PollThread] = "c_unlock" /\ DrainStarted

\* the total duration is that of exactly `requests` completions (each takes
\* the nap plus an overhead far below the nap)
TimeMatchesCount ==
    /\ requests * NapMillis <= totalTime.ms
    /\ totalTime.ms < (requests + 1) * NapMillis

PendingIds == {k \in GetIds : Pending(k)}

\* C14: outside a worker's critical section, which is all any caller of Get,
\* Stats or HasPendingHashes can see, a result is in the store only if its
\* worker is no longer counted as pending, a counted completion has its
\* result stored (or fetched), and count and duration go together
C14_NoPartialUpdateVisible ==
    lock \notin Workers =>
        /\ \A k \in DOMAIN tasks : Completed(k)
        /\ \A k \in GetIds : Completed(k) => k \in DOMAIN tasks \/ fetched[k] >= 1
        /\ requests = Cardinality(CompletedWorkers)
        /\ pendingHashes = Cardinality(PendingIds)
        /\ TimeMatchesCount

\* C14 witness: Stats observes the state between two completions
C14_Witness ==
    /\ pc[StatsThread] = "s_unlock" /\ ret[StatsThread].requests = 1
    /\ pendingHashes = 1
    /\ Cardinality(DOMAIN tasks) = 1

\* C15: whenever the lock is free, pendingHashes >= 0, id = requests +
\* pendingHashes, every key of tasks is an id below pm.id whose worker has
\* completed, tasks has at most `requests` entries, and no id is both
\* pending and in tasks
C15_CountersConserved ==
    lock = NoThread =>
        /\ pendingHashes >= 0
        /\ id = requests + pendingHashes
        /\ \A k \in DOMAIN tasks : 0 <= k /\ k < id /\ Completed(k) /\ ~Pending(k)
        /\ Cardinality(DOMAIN tasks) <= requests

\* C15 witness: lock free with one task completed and stored, one pending
C15_Witness ==
    /\ lock = NoThread /\ id = 2 /\ requests = 1 /\ pendingHashes = 1
    /\ DOMAIN tasks # {}

\* C16: a Shutdown() call changes none of tasks, id, requests, totalTime,
\* pendingHashes and nothing of any worker; a sleeping worker can go on
\* whenever the lock is free, flag or no flag, and its steps under the flag
\* store its digest and count it
C16_ShutdownOnlySetsFlag ==
    [][/\ ShutdownStep =>
            /\ UNCHANGED <<tasks, id, requests, totalTime, pendingHashes>>
            /\ UNCHANGED <<wid, pwd, hashedPwd>>
            /\ \A w \in Workers : pc'[w] = pc[w]
       /\ \A w \in Workers :
            /\ shuttingDown /\ Running /\ lock = NoThread /\ pc[w] = "w_sleep"
                   => ENABLED calculateHash(w)
            /\ shuttingDown /\ pc[w] = "w_sleep" /\ pc'[w] # "w_sleep"
                   => tasks' = Store(tasks, wid[w], Digest(pwd[w]))
            /\ shuttingDown /\ pc[w] = "w_dec" /\ pc'[w] # "w_dec"
                   => pendingHashes' = pendingHashes - 1
            /\ shuttingDown /\ pc[w] = "w_req" /\ pc'[w] # "w_req"
                   => requests' = requests + 1]_vars

\* C16 witness: after shutdown() called Shutdown(), a worker has stored and
\* counted its result
C16_Witness ==
    \E w \in Workers : pc[w] = "w_unlock" /\ DrainStarted /\ wid[w] \in DOMAIN tasks

\* C17: an entry of tasks is neither removed nor changed by any step other
\* than the body of a Get for its own id
C17_EntryStaysUntilOwnGet ==
    [][\A k \in DOMAIN tasks :
          \/ k \in DOMAIN tasks' /\ tasks'[k] = tasks[k]
          \/ \E g \in Getters : GetStep(g, k)]_vars

\* C17 witness: a Get of another id returned its hash and the entry of id k
\* is still stored, with shuttingDown set
C17_Witness ==
    \E g \in Getters, k \in DOMAIN tasks :
        pc[g] = "g_unlock" /\ gid[g] # k /\ ret[g] # Nil /\ shuttingDown

DurLeq(a, b) == a.ms < b.ms \/ (a.ms = b.ms /\ a.ns <= b.ns)

\* C18: requests and totalTime never decrease, only a worker inside its
\* critical section changes them, and outside a worker's critical section
\* the duration is that of exactly `requests` completions
C18_StatsMonotoneTogether ==
    [][/\ requests' >= requests
       /\ DurLeq(totalTime, totalTime')
       /\ requests' # requests \/ totalTime' # totalTime =>
              \E w \in Workers : lock = w /\ lock' = w /\ pc[w] \in {"w_time", "w_req"}
       /\ lock' \notin Workers => TimeMatchesCount']_vars

\* C18 witness: the second worker has just counted its completion
C18_Witness ==
    \E w \in Workers : pc[w] = "w_unlock" /\ requests = 2

\* the program counters at which a thread holds the mutex
InLockPcs == {"isd_unlock", "h_unlock", "w_time", "w_dec", "w_req", "w_unlock",
              "g_unlock", "s_unlock", "p_unlock", "c_unlock", "d_unlock"}
LockHolders == {t \in Threads : pc[t] \in InLockPcs}

\* no call is held up by sleeping workers: with the lock free every call
\* that is about to lock can, and every critical section can end
NonBlocking ==
    /\ Running /\ lock = NoThread =>
        /\ \A h \in Hashers : pc[h] = "h_hash" => ENABLED Hash(h)
        /\ \A g \in Getters : pc[g] = "g_get" => ENABLED Get(g)
        /\ pc[StatsThread] = "s_stats" => ENABLED Stats
        /\ \A t \in PendingCallers : pc[t] = "p_idle" => ENABLED HasPendingHashes(t)
        /\ \A t \in AdapterThreads : pc[t] = "idle" => ENABLED IsShuttingDown(t)
        /\ pc[SignalThread] = "d_wait" => ENABLED Shutdown
    /\ Running => \A h \in Hashers : pc[h] = "h_unlock" => ENABLED HashUnlock(h)

\* C19: the threads inside a critical section are exactly the holder of the
\* lock, at most one; every change of a manager field happens in a step
\* after which the acting thread holds the lock; a sleeping worker does not
\* hold it; and no call waits for a worker
C19_LockDiscipline ==
    [][/\ LockHolders' = (IF lock' = NoThread THEN {} ELSE {lock'})
       /\ pmvars' # pmvars => lock' # NoThread /\ pc'[lock'] # pc[lock']
       /\ \A w \in Workers : pc'[w] = "w_sleep" => lock' # w
       /\ NonBlocking]_vars

\* C19 witness: Stats has run while every worker is asleep, after their Hash
\* calls returned
C19_Witness ==
    /\ pc[StatsThread] = "s_unlock"
    /\ \A w \in Workers : pc[w] = "w_sleep"
    /\ \A h \in Hashers : Returned(h)

\* C20 (as claimed): once shuttingDown is set no entry leaves the store
\* through the adapter's get handler: a call of Get it makes then removes
\* nothing
C20_AdapterRejectsWhileDraining ==
    [][shuttingDown /\ pc[GetHandlerThread] = "g_get"
           /\ pc'[GetHandlerThread] = "g_unlock"
       => tasks' = tasks]_vars

====
